---- MODULE Spec2Model ----
(***************************************************************************)
(* State-machine model of the ignis notification daemon                    *)
(* (src/ignis/services/notifications.py).                                  *)
(*                                                                         *)
(* objs maps a handle (the Python reference) to a Notification object; the *)
(* handle is distinct from the protocol id.  The dicts _notifications and  *)
(* _popups are sequences of handles in insertion order; an object is       *)
(* always stored under the key objs[h].id.  One action is one callback run *)
(* to completion on the GLib main loop: signal emission in GObject is      *)
(* synchronous, so the handlers connected to "closed" and "dismissed" run  *)
(* inside the emitting call.  The signals a callback emits and its file    *)
(* writes are collected in the log field of the record it returns.         *)
(*                                                                         *)
(* Spec drives the service by whole callbacks; SpecTimers adds that armed  *)
(* timers fire; SpecDispatch drives it through DBusService                 *)
(* (src/ignis/dbus.py), call by call and thread by thread; SpecPersist     *)
(* runs it over several lives of the process on one cache file.            *)
(***************************************************************************)
EXTENDS Integers, Sequences, FiniteSets, TLC

VARIABLES
    _id,               \* NotificationService._id
    objs,              \* the Notification objects alive in this process, by handle
    _notifications,    \* NotificationService._notifications (handles, dict order)
    _popups,           \* NotificationService._popups (handles, dict order)
    held,              \* handles a widget keeps a reference to
    dnd,               \* option "dnd"
    max_popups_count,  \* option "notification_max_popups_count"
    popup_timeout,     \* option "notification_timeout"
    file,              \* contents of NOTIFICATIONS_CACHE_FILE
    clock,             \* number of datetime.now() samples taken so far
    calls,             \* the method calls DBusService has received, in arrival order
    ready,             \* calls whose unpacking is done, callback not yet started
    running            \* the callbacks that are being executed

vars == <<_id, objs, _notifications, _popups, held, dnd, max_popups_count,
          popup_timeout, file, clock, calls, ready, running>>

\* the state of DBusService.__handle_method_call and its ThreadTasks
dispatch == <<calls, ready, running>>

----------------------------------------------------------------------------
(* Bounds *)

MaxNotifications == 3
MaxId == 3
MaxReplacesId == 2
MaxPopupsCount == 2
MaxHeld == 1
MaxCalls == 3

(* Program constants *)

DefaultPopupTimeout == 5000
DefaultUrgency == 1
ReasonClosed == 2

----------------------------------------------------------------------------
(* Inputs of Notify *)

NoHints == <<>>

\* Notify("app", r, "", "Hi", "body", [], {}, -1)
Plain ==
    [app_name |-> "app", app_icon |-> "", summary |-> "Hi", body |-> "body",
     actions |-> <<>>, hints |-> NoHints, timeout |-> -1]

\* a call with actions, an urgency hint, image data and its own timeout
Rich ==
    [app_name |-> "app", app_icon |-> "mail", summary |-> "Yo", body |-> "text",
     actions |-> <<"default", "Open">>,
     hints |-> ("urgency" :> 2) @@ ("image-data" :> "ok"), timeout |-> 1000]

\* a call whose image data GdkPixbuf rejects
Broken ==
    [app_name |-> "app", app_icon |-> "", summary |-> "Px", body |-> "body",
     actions |-> <<>>, hints |-> ("image-data" :> "bad"), timeout |-> -1]

Payloads == {Plain, Broken}

NOTIFICATIONS_EMPTY_CACHE_FILE == [id |-> 0, notifications |-> <<>>]

\* the file as json.load sees it: whether it parses, and the document if so
EmptyFile == [parses |-> TRUE, doc |-> NOTIFICATIONS_EMPTY_CACHE_FILE]

----------------------------------------------------------------------------
(* Python dict operations on a sequence of handles keyed by objs[h].id *)

Keys(O, d) == { O[d[i]].id : i \in 1..Len(d) }

\* dict.get(id, None): the handle stored under id, 0 for None
Get(O, d, id) ==
    IF \E i \in 1..Len(d) : O[d[i]].id = id
    THEN d[CHOOSE i \in 1..Len(d) : O[d[i]].id = id]
    ELSE 0

\* dict.pop(id)
Pop(O, d, id) == SelectSeq(d, LAMBDA h : O[h].id # id)

\* d[O[h].id] = h: an existing key keeps its position
SetItem(O, d, h) ==
    IF \E i \in 1..Len(d) : O[d[i]].id = O[h].id
    THEN [i \in 1..Len(d) |-> IF O[d[i]].id = O[h].id THEN h ELSE d[i]]
    ELSE Append(d, h)

----------------------------------------------------------------------------
(* The callbacks work on a record of the mutable state *)

State ==
    [id |-> _id, objs |-> objs, notifs |-> _notifications, popups |-> _popups,
     file |-> file, clock |-> clock, log |-> <<>>, raised |-> FALSE]

Event(sig, h, id) == [sig |-> sig, obj |-> h, id |-> id, reason |-> 0]

Emit(s, e) == [s EXCEPT !.log = Append(@, e)]

\* the labels of the actions are left out
Json_NoLabels(n) ==
    [id |-> n.id, app_name |-> n.app_name, icon |-> n.icon,
     summary |-> n.summary, body |-> n.body,
     actions |-> [k \in 1..Len(n.actions) |-> n.actions[k].id],
     timeout |-> n.timeout, time |-> n.time, urgency |-> n.urgency]

\* Notification.json
Json(n) ==
    [id |-> n.id, app_name |-> n.app_name, icon |-> n.icon,
     summary |-> n.summary, body |-> n.body,
     actions |-> [k \in 1..(2 * Len(n.actions)) |->
                    IF k % 2 = 1 THEN n.actions[(k + 1) \div 2].id
                                 ELSE n.actions[k \div 2].label],
     timeout |-> n.timeout, time |-> n.time, urgency |-> n.urgency]

\* NotificationService.__sync
Sync(s) ==
    LET data == [id |-> s.id,
                 notifications |-> [i \in 1..Len(s.notifs) |-> Json(s.objs[s.notifs[i]])]]
    IN  Emit([s EXCEPT !.file = [parses |-> TRUE, doc |-> data]], Event("sync", 0, 0))

\* the popup is left in the dict
DismissPopup_Keeps(s, h) == s

\* the notification is taken out of the collection as well
DismissPopup_AlsoForgets(s, h) ==
    IF Get(s.objs, s.popups, s.objs[h].id) # 0
    THEN [s EXCEPT !.popups = Pop(s.objs, @, s.objs[h].id),
                   !.notifs = Pop(s.objs, @, s.objs[h].id)]
    ELSE s

\* NotificationService.__dismiss_popup
DismissPopup(s, h) ==
    IF Get(s.objs, s.popups, s.objs[h].id) # 0
    THEN [s EXCEPT !.popups = Pop(s.objs, @, s.objs[h].id)]
    ELSE s

\* the flag is not tested
Dismiss_Unguarded(s, h) ==
    DismissPopup(Emit([s EXCEPT !.objs[h].popup = FALSE],
                      Event("dismissed", h, s.objs[h].id)), h)

\* the flag is toggled
Dismiss_Toggles(s, h) ==
    IF s.objs[h].popup
    THEN DismissPopup(Emit([s EXCEPT !.objs[h].popup = FALSE],
                           Event("dismissed", h, s.objs[h].id)), h)
    ELSE [s EXCEPT !.objs[h].popup = TRUE]

\* Notification.dismiss; the "dismissed" handler is __dismiss_popup
Dismiss(s, h) ==
    IF s.objs[h].popup
    THEN DismissPopup(Emit([s EXCEPT !.objs[h].popup = FALSE],
                           Event("dismissed", h, s.objs[h].id)), h)
    ELSE s

\* the notification is removed but not dismissed
CloseHandler_NoDismiss(s, h) ==
    IF Get(s.objs, s.notifs, s.objs[h].id) = 0
    THEN s
    ELSE Emit(Sync([s EXCEPT !.notifs = Pop(s.objs, @, s.objs[h].id)]),
              [sig |-> "NotificationClosed", obj |-> h,
               id |-> s.objs[h].id, reason |-> ReasonClosed])

\* NotificationService.__close_notification, the first "closed" handler of
\* every added notification.  dict.pop raises KeyError when the key is absent;
\* PyGObject reports an exception raised by a signal handler and goes on.
CloseHandler(s, h) ==
    IF Get(s.objs, s.notifs, s.objs[h].id) = 0
    THEN s
    ELSE LET s1 == [s EXCEPT !.notifs = Pop(s.objs, @, s.objs[h].id)]
             s2 == IF s1.objs[h].popup THEN Dismiss(s1, h) ELSE s1
             s3 == Sync(s2)
         IN  Emit(s3,
                  [sig |-> "NotificationClosed", obj |-> h,
                   id |-> s.objs[h].id, reason |-> ReasonClosed])

\* NotificationService.__add_notification
AddNotification(s, h) == [s EXCEPT !.notifs = SetItem(s.objs, @, h)]

\* f"{NOTIFICATIONS_IMAGE_DATA}/{_id}"
ImagePath(id) == "images/" \o ToString(id)

\* Notification.__init__: the actions list is read in (id, label) pairs
ActionPairs(flat) ==
    [k \in 1..(Len(flat) \div 2) |-> [id |-> flat[2 * k - 1], label |-> flat[2 * k]]]

\* the dnd option is not consulted
NewNotification_AlwaysPopup(id, p, icon, time) ==
    [id |-> id, app_name |-> p.app_name, icon |-> icon, summary |-> p.summary,
     body |-> p.body, actions |-> ActionPairs(p.actions),
     urgency |-> IF "urgency" \in DOMAIN p.hints THEN p.hints["urgency"]
                 ELSE DefaultUrgency,
     timeout |-> IF p.timeout = -1 THEN popup_timeout ELSE p.timeout,
     time |-> time, popup |-> TRUE, on_closed |-> <<>>]

\* the Notification(...) call of __init_notification
NewNotification(id, p, icon, time) ==
    [id |-> id, app_name |-> p.app_name, icon |-> icon, summary |-> p.summary,
     body |-> p.body, actions |-> ActionPairs(p.actions),
     urgency |-> IF "urgency" \in DOMAIN p.hints THEN p.hints["urgency"]
                 ELSE DefaultUrgency,
     timeout |-> IF p.timeout = -1 THEN popup_timeout ELSE p.timeout,
     time |-> time, popup |-> ~dnd, on_closed |-> <<>>]

\* > in place of >=
PopupsFull_Strict(n, max) == n > max

\* len(self.popups) >= self.max_popups_count
PopupsFull(n, max) == n >= max

\* self.popups[-1]: the last value of the dict, i.e. the last key inserted
EvictionTarget(popups) == popups[Len(popups)]

\* the eviction step of __init_notification
Evict(s) ==
    IF PopupsFull(Len(s.popups), max_popups_count)
    THEN IF ~(max_popups_count = 0) THEN Dismiss(s, EvictionTarget(s.popups)) ELSE s
    ELSE s

\* if notification.popup: self._popups[notification.id] = notification; emit new_popup
Admit(s, h) ==
    IF s.objs[h].popup
    THEN Emit([s EXCEPT !.popups = SetItem(s.objs, @, h)],
              Event("new_popup", h, s.objs[h].id))
    ELSE s

\* __save_pixbuf raises on image data GdkPixbuf rejects; Notification.__init__
\* raises IndexError on an odd-length actions list
InitRaises(p) ==
    \/ ("image-data" \in DOMAIN p.hints /\ p.hints["image-data"] = "bad")
    \/ Len(p.actions) % 2 = 1

\* a reference to a new Python object: the lowest handle not in use
FreshHandle(O) == CHOOSE h \in 1..(Cardinality(DOMAIN O) + 1) :
                    /\ h \notin DOMAIN O
                    /\ \A g \in 1..(h - 1) : g \in DOMAIN O

\* the image is saved only after the eviction step
InitNotification_EvictsFirst(s, id, p) ==
    IF InitRaises(p)
    THEN [Evict(s) EXCEPT !.raised = TRUE]
    ELSE LET icon == IF "image-data" \in DOMAIN p.hints THEN ImagePath(id)
                     ELSE p.app_icon
             h  == FreshHandle(s.objs)
             n  == NewNotification(id, p, icon, s.clock)
             s1 == [s EXCEPT !.objs = (h :> n) @@ @, !.clock = @ + 1]
             s2 == Evict(s1)
             s3 == Admit(s2, h)
             s4 == AddNotification(s3, h)
             s5 == Sync(s4)
         IN  Emit(s5, Event("notified", h, id))

\* NotificationService.__init_notification
InitNotification(s, id, p) ==
    IF InitRaises(p)
    THEN [s EXCEPT !.raised = TRUE]
    ELSE LET icon == IF "image-data" \in DOMAIN p.hints THEN ImagePath(id)
                     ELSE p.app_icon
             h  == FreshHandle(s.objs)
             n  == NewNotification(id, p, icon, s.clock)
             s1 == [s EXCEPT !.objs = (h :> n) @@ @, !.clock = @ + 1]
             s2 == Evict(s1)
             s3 == Admit(s2, h)
             s4 == AddNotification(s3, h)
             s5 == Sync(s4)
         IN  Emit(s5, Event("notified", h, id))

\* the handlers old_notification.connect("closed", lambda x: _init(_id)) added
RECURSIVE RunClosures(_, _, _)
RunClosures(s, h, cs) ==
    IF cs = <<>> THEN s
    ELSE LET s1 == InitNotification(s, Head(cs).id, Head(cs).p)
         IN  RunClosures([s1 EXCEPT !.raised = FALSE], h, Tail(cs))

\* Notification.close: emit("closed") runs the connected handlers in order
Close(s, h) ==
    LET s0 == Emit(s, Event("closed", h, s.objs[h].id))
    IN  RunClosures(CloseHandler(s0, h), h, s0.objs[h].on_closed)

\* the counter is read but not advanced
AllocId_NoIncrement(n) == n

\* self._id + 1
AllocId(n) == n + 1

\* the replacement is built before the old notification is closed
ReplaceExisting_InitFirst(s, old, id, p) == Close(InitNotification(s, id, p), old)

\* __Notify, replaces_id names an existing notification:
\* old_notification.close(); old_notification.connect("closed", lambda x: _init(_id))
ReplaceExisting(s, old, id, p) ==
    LET s1 == Close(s, old)
    IN  [s1 EXCEPT !.objs[old].on_closed = Append(@, [id |-> id, p |-> p])]

\* a fresh id is allocated for a replaces_id that names nothing
ReplaceMissing_Allocates(s, id, p) ==
    InitNotification([s EXCEPT !.id = AllocId(s.id)], AllocId(s.id), p)

\* __Notify, replaces_id names no notification: _init(_id) with _id = replaces_id
ReplaceMissing(s, id, p) == InitNotification(s, id, p)

\* NotificationService.__Notify; ret is the id of the reply, 0 when it raised
Notify(s, replaces_id, p) ==
    LET r == IF replaces_id = 0
             THEN LET i == AllocId(s.id)
                  IN  [st |-> InitNotification([s EXCEPT !.id = i], i, p), id |-> i]
             ELSE LET old == Get(s.objs, s.notifs, replaces_id)
                  IN  [st |-> IF old # 0
                              THEN ReplaceExisting(s, old, replaces_id, p)
                              ELSE ReplaceMissing(s, replaces_id, p),
                       id |-> replaces_id]
    IN  [st |-> r.st, ret |-> IF r.st.raised THEN 0 ELSE r.id]

\* the id is looked up among the popups
CloseNotification_AmongPopups(s, id) ==
    LET notification == Get(s.objs, s.popups, id)
    IN  IF notification # 0 THEN Close(s, notification) ELSE s

\* NotificationService.__CloseNotification
CloseNotification(s, id) ==
    LET notification == Get(s.objs, s.notifs, id)
    IN  IF notification # 0 THEN Close(s, notification) ELSE s

\* NotificationService.clear_all: iterates a copy of the values
RECURSIVE CloseEach(_, _)
CloseEach(s, hs) ==
    IF hs = <<>> THEN s ELSE CloseEach(Close(s, Head(hs)), Tail(hs))

clear_all(s) == CloseEach(s, s.notifs)

----------------------------------------------------------------------------
(* Startup: NotificationService.__init__ and __load_notifications *)

\* the keyword arguments Notification(**n, popup=False, dbus=...) accepts
NotificationKeys ==
    {"id", "app_name", "icon", "summary", "body", "actions", "timeout", "time",
     "urgency"}

\* Notification(**n, ...) raises TypeError on a missing or unknown key and
\* IndexError on an odd-length actions list
RecordLoads(r) == DOMAIN r = NotificationKeys /\ Len(r.actions) % 2 = 0

\* Notification(**n, popup=False, dbus=self.__dbus)
Restored(r) ==
    [id |-> r.id, app_name |-> r.app_name, icon |-> r.icon, summary |-> r.summary,
     body |-> r.body, actions |-> ActionPairs(r.actions), urgency |-> r.urgency,
     timeout |-> r.timeout, time |-> r.time, popup |-> FALSE, on_closed |-> <<>>]

\* the for loop of __load_notifications; raised when a record fails
RECURSIVE LoadRecords(_, _)
LoadRecords(s, rs) ==
    IF rs = <<>> THEN s
    ELSE IF ~RecordLoads(Head(rs)) THEN [s EXCEPT !.raised = TRUE]
    ELSE LET h  == FreshHandle(s.objs)
             s1 == [s EXCEPT !.objs = (h :> Restored(Head(rs))) @@ @]
         IN  LoadRecords(AddNotification(s1, h), Tail(rs))

\* the except branch of __load_notifications
ResetFile(s) ==
    Emit([s EXCEPT !.raised = FALSE, !.file = EmptyFile], Event("reset", 0, 0))

\* NotificationService.__load_notifications
LoadNotifications(s) ==
    IF ~s.file.parses THEN ResetFile(s)
    ELSE LET s1 == LoadRecords(s, s.file.doc.notifications)
         IN  IF s1.raised THEN ResetFile(s1)
             ELSE [s1 EXCEPT !.id = s.file.doc.id]

NoObjects == [h \in {} |-> 0]

\* NotificationService.__init__ on the cache file f
Construct(f, c) ==
    LoadNotifications([id |-> 0, objs |-> NoObjects, notifs |-> <<>>, popups |-> <<>>,
                       file |-> f, clock |-> c, log |-> <<>>, raised |-> FALSE])

----------------------------------------------------------------------------
(* Actions *)

\* An object no dict, no pending popup timer and no widget refers to can take
\* part in nothing any more: Python frees it.  (The timer of a notification
\* that is no popup calls a dismiss() that does nothing.)
Reachable(s, keep) ==
    { h \in DOMAIN s.objs :
        \/ h \in keep
        \/ s.objs[h].popup
        \/ \E i \in 1..Len(s.notifs) : s.notifs[i] = h
        \/ \E i \in 1..Len(s.popups) : s.popups[i] = h }

Commit(s, keep) ==
    /\ _id' = s.id
    /\ objs' = [h \in Reachable(s, keep) |-> s.objs[h]]
    /\ _notifications' = s.notifs
    /\ _popups' = s.popups
    /\ held' = keep
    /\ file' = s.file
    /\ clock' = s.clock

Options == <<dnd, max_popups_count, popup_timeout>>

\* the cache file does not exist at first start: open() raises, the except
\* branch writes the empty file
Init ==
    /\ LET s == Construct([parses |-> FALSE, doc |-> NOTIFICATIONS_EMPTY_CACHE_FILE], 0)
       IN  /\ _id = s.id
           /\ objs = s.objs
           /\ _notifications = s.notifs
           /\ _popups = s.popups
           /\ file = s.file
           /\ clock = s.clock
    /\ held = {}
    /\ dnd = FALSE
    /\ max_popups_count \in 0..MaxPopupsCount
    /\ popup_timeout = DefaultPopupTimeout
    /\ calls = <<>>
    /\ ready = <<>>
    /\ running = {}

\* an inbound Notify call reaches __Notify
DoNotify(replaces_id, p) ==
    LET r == Notify(State, replaces_id, p)
    IN  /\ (replaces_id = 0 => _id < MaxId)
        /\ r.st.clock <= MaxNotifications
        /\ Commit(r.st, held)
        /\ UNCHANGED <<Options, dispatch>>

\* an inbound CloseNotification call reaches __CloseNotification
DoCloseNotification(id) ==
    LET s == CloseNotification(State, id)
    IN  /\ s.clock <= MaxNotifications
        /\ Commit(s, held)
        /\ UNCHANGED <<Options, dispatch>>

\* a user of the service calls clear_all()
DoClearAll ==
    LET s == clear_all(State)
    IN  /\ s.clock <= MaxNotifications
        /\ Commit(s, held)
        /\ UNCHANGED <<Options, dispatch>>

\* the Utils.Timeout of object h fires and calls its dismiss()
TimerFires(h) ==
    /\ Commit(Dismiss(State, h), held)
    /\ UNCHANGED <<Options, dispatch>>

\* a widget keeps the Notification object it was handed
WidgetKeeps(h) ==
    /\ h \notin held
    /\ Cardinality(held) < MaxHeld
    /\ held' = held \cup {h}
    /\ UNCHANGED <<_id, objs, _notifications, _popups, file, clock>>
    /\ UNCHANGED <<Options, dispatch>>

\* the widget calls close() on the object it kept, then lets go of it
WidgetCloses(h) ==
    LET s == Close(State, h)
    IN  /\ h \in held
        /\ s.clock <= MaxNotifications
        /\ Commit(s, held \ {h})
        /\ UNCHANGED <<Options, dispatch>>

\* the dnd setter
SetDnd(v) ==
    /\ dnd' = v
    /\ dnd # v
    /\ UNCHANGED <<_id, objs, _notifications, _popups, held, max_popups_count,
                   popup_timeout, file, clock, dispatch>>

\* the max_popups_count setter
SetMaxPopupsCount(v) ==
    /\ max_popups_count' = v
    /\ max_popups_count # v
    /\ UNCHANGED <<_id, objs, _notifications, _popups, held, dnd, popup_timeout,
                   file, clock, dispatch>>

Handlers ==
    \/ \E r \in 0..MaxReplacesId : \E p \in Payloads : DoNotify(r, p)
    \/ \E id \in 1..MaxReplacesId : DoCloseNotification(id)
    \/ DoClearAll
    \/ \E h \in DOMAIN objs : TimerFires(h)
    \/ \E h \in DOMAIN objs : WidgetKeeps(h)
    \/ \E h \in DOMAIN objs : WidgetCloses(h)
    \/ \E v \in BOOLEAN : SetDnd(v)

Next ==
    \/ Handlers
    \/ \E v \in 0..MaxPopupsCount : SetMaxPopupsCount(v)

Spec == Init /\ [][Next]_vars

\* the same program with max_popups_count left at its initial value
SpecFixedMax == Init /\ [][Handlers]_vars

\* a timer that can make a difference does fire: the main loop runs the
\* callback of every Utils.Timeout once its interval has elapsed
TimersFire == WF_vars(\E h \in DOMAIN objs : TimerFires(h))

SpecTimers == Spec /\ TimersFire

----------------------------------------------------------------------------
(* Method dispatch: DBusService.__handle_method_call.  Each call is unpacked *)
(* by a Utils.ThreadTask of its own; the task's callback invokes the         *)
(* registered method and answers the invocation.                             *)

\* DBusService._methods once NotificationService.__init__ has registered them
Methods == {"GetServerInformation", "GetCapabilities", "CloseNotification", "Notify"}

\* the calls clients send: a method name, replaces_id or id, and the content
Requests ==
    { [method |-> "Notify", arg |-> r, p |-> p] : r \in {0, 1}, p \in Payloads }
    \cup { [method |-> "CloseNotification", arg |-> 1, p |-> Plain],
           [method |-> "GetCapabilities", arg |-> 0, p |-> Plain],
           [method |-> "GetIcon", arg |-> 0, p |-> Plain] }

\* result = func(invocation, *unpacked_params): the state the method leaves and
\* whether it returned
Invoke(s, c) ==
    IF c.method = "Notify"
    THEN LET r == Notify(s, c.arg, c.p)
         IN  [st |-> r.st, returned |-> ~r.st.raised, ret |-> r.ret]
    ELSE IF c.method = "CloseNotification"
    THEN [st |-> CloseNotification(s, c.arg), returned |-> TRUE, ret |-> 0]
    ELSE [st |-> s, returned |-> TRUE, ret |-> 0]

\* every thread may run a callback
DispatchThreadFree_Always == TRUE

\* the callbacks of ThreadTask and Timeout run on the thread of the main loop,
\* which runs one callback at a time
DispatchThreadFree == running = {}

\* __handle_method_call: no method of that name raises DBusMethodNotFoundError
\* out of the GDBus callback, otherwise a ThreadTask starts unpacking
HandleMethodCall(q) ==
    /\ Len(calls) < MaxCalls
    /\ DispatchThreadFree
    /\ calls' = Append(calls,
                  [method |-> q.method, arg |-> q.arg, p |-> q.p,
                   stage |-> IF q.method \in Methods THEN "unpacking" ELSE "raised",
                   answered |-> FALSE, ret |-> 0])
    /\ UNCHANGED <<ready, running>>
    /\ UNCHANGED <<_id, objs, _notifications, _popups, held, file, clock, Options>>

\* params.unpack has returned on the worker thread of call i
UnpackFinishes(i) ==
    /\ calls[i].stage = "unpacking"
    /\ calls' = [calls EXCEPT ![i].stage = "unpacked"]
    /\ ready' = Append(ready, i)
    /\ UNCHANGED running
    /\ UNCHANGED <<_id, objs, _notifications, _popups, held, file, clock, Options>>

\* the callback of the call whose unpacking finished last is entered
CallbackStarts_Newest ==
    /\ ready # <<>>
    /\ DispatchThreadFree
    /\ calls' = [calls EXCEPT ![ready[Len(ready)]].stage = "running"]
    /\ ready' = SubSeq(ready, 1, Len(ready) - 1)
    /\ running' = running \cup {<<"call", ready[Len(ready)]>>}
    /\ UNCHANGED <<_id, objs, _notifications, _popups, held, file, clock, Options>>

\* callback(func, result) of the call whose unpacking finished first is entered
CallbackStarts ==
    /\ ready # <<>>
    /\ DispatchThreadFree
    /\ calls' = [calls EXCEPT ![Head(ready)].stage = "running"]
    /\ ready' = Tail(ready)
    /\ running' = running \cup {<<"call", Head(ready)>>}
    /\ UNCHANGED <<_id, objs, _notifications, _popups, held, file, clock, Options>>

\* callback(func, result): the method runs; invocation.return_value(result) is
\* reached only when it returns
CallbackReturns(i) ==
    LET r == Invoke(State, calls[i])
    IN  /\ <<"call", i>> \in running
        /\ Commit(r.st, held)
        /\ calls' = [calls EXCEPT ![i].stage = IF r.returned THEN "returned" ELSE "raised",
                                  ![i].answered = r.returned,
                                  ![i].ret = r.ret]
        /\ running' = running \ {<<"call", i>>}
        /\ UNCHANGED <<ready, Options>>

\* the Utils.Timeout of object h expires and its callback is entered
TimerStarts(h) ==
    /\ DispatchThreadFree
    /\ running' = running \cup {<<"timer", h>>}
    /\ UNCHANGED <<calls, ready>>
    /\ UNCHANGED <<_id, objs, _notifications, _popups, held, file, clock, Options>>

\* the timer callback, Notification.dismiss, runs
TimerReturns(h) ==
    /\ <<"timer", h>> \in running
    /\ Commit(Dismiss(State, h), held)
    /\ running' = running \ {<<"timer", h>>}
    /\ UNCHANGED <<calls, ready, Options>>

Dispatch ==
    \/ \E q \in Requests : HandleMethodCall(q)
    \/ \E i \in 1..Len(calls) : UnpackFinishes(i)
    \/ CallbackStarts
    \/ \E i \in 1..Len(calls) : CallbackReturns(i)
    \/ \E h \in DOMAIN objs : TimerStarts(h)
    \/ \E h \in DOMAIN objs : TimerReturns(h)

\* the service driven through its bus interface
SpecDispatch == Init /\ [][Dispatch]_vars

----------------------------------------------------------------------------
(* Restarts: the process ends, the cache file stays, and a new process runs  *)
(* NotificationService.__init__ on it.  Between two runs the file may have   *)
(* been damaged.                                                             *)

\* a file json.load rejects
Unreadable == [parses |-> FALSE, doc |-> NOTIFICATIONS_EMPTY_CACHE_FILE]

\* a record that lost one of its keys
WithoutUrgency(r) == [k \in DOMAIN r \ {"urgency"} |-> r[k]]

\* json.load fails or some record is no valid Notification(**n)
Corrupt(f) ==
    \/ ~f.parses
    \/ \E k \in 1..Len(f.doc.notifications) : ~RecordLoads(f.doc.notifications[k])

\* the file is damaged while the service is down: it is made unreadable
\* (k = 0) or its k-th record loses a key
DamageFile(k) ==
    /\ ~Corrupt(file)
    /\ file' = IF k = 0 THEN Unreadable
               ELSE [file EXCEPT !.doc.notifications[k] = WithoutUrgency(@)]
    /\ UNCHANGED <<_id, objs, _notifications, _popups, held, clock, Options, dispatch>>

\* the process is started again: NotificationService.__init__
Restart ==
    /\ Commit(Construct(file, clock), {})
    /\ UNCHANGED <<Options, dispatch>>

Persist ==
    \/ \E r \in 0..MaxReplacesId : \E p \in {Plain, Rich, Broken} : DoNotify(r, p)
    \/ \E id \in 1..MaxReplacesId : DoCloseNotification(id)
    \/ DoClearAll
    \/ \E h \in DOMAIN objs : TimerFires(h)
    \/ \E k \in 0..Len(file.doc.notifications) : DamageFile(k)
    \/ Restart

\* the service over several runs of the process
SpecPersist == Init /\ [][Persist]_vars

----------------------------------------------------------------------------
(* Properties *)

Handles(d) == { d[i] : i \in 1..Len(d) }

Positions(lg, sig, id) == { i \in 1..Len(lg) : lg[i].sig = sig /\ lg[i].id = id }

GoodPayloads == { p \in Payloads : ~InitRaises(p) }

\* C1: every Notify call with replaces_id = 0 advances _id by exactly one and,
\* when it replies, replies with that new value; no step of the service lowers
\* _id.  Hence the ids such calls return are strictly increasing and none is
\* returned twice.
C1_AllocatedIdsIncrease ==
    [][ /\ _id' >= _id
        /\ \A p \in Payloads :
             DoNotify(0, p) =>
               LET r == Notify(State, 0, p)
               IN  /\ _id' = _id + 1
                   /\ ~r.st.raised => (r.ret = _id' /\ r.ret > _id) ]_vars

C1_Witness ==
    /\ _id = 2
    /\ Keys(objs, _notifications) = {1, 2}
    /\ clock = 2

\* C2: a Notify call whose replaces_id = X names an existing notification
\* replies X and emits NotificationClosed(X, 2) for the prior notification, and
\* no "notified" for id X precedes that signal; the replacement's _init is held
\* only by notifications that are already closed, so it can run only later.
C2_ReplaceReturnsIdClosedFirst ==
    /\ \A x \in 1..MaxId : \A p \in Payloads :
         Get(objs, _notifications, x) # 0 =>
           LET r  == Notify(State, x, p)
               lg == r.st.log
           IN  /\ r.ret = x
               /\ Positions(lg, "NotificationClosed", x) # {}
               /\ \A i \in Positions(lg, "NotificationClosed", x) :
                    \A j \in Positions(lg, "notified", x) : i < j
    /\ \A h \in DOMAIN objs :
         objs[h].on_closed # <<>> => h \notin Handles(_notifications)

C2_Witness ==
    \E h \in held :
        /\ objs[h].on_closed # <<>>
        /\ h \notin Handles(_notifications)
        /\ Get(objs, _notifications, objs[h].id) = 0

\* C3 (as claimed): after a Notify call whose replaces_id = X names an existing
\* notification, the collection holds a notification with id X that carries
\* the call's content, and "notified" has been emitted for it.
C3_ReplacementConstructed ==
    [][ \A x \in 1..MaxId : \A p \in GoodPayloads :
          (Get(objs, _notifications, x) # 0 /\ DoNotify(x, p)) =>
            LET h == Get(objs', _notifications', x)
            IN  /\ h # 0
                /\ objs'[h].summary = p.summary
                /\ objs'[h].time = clock
                /\ Positions(Notify(State, x, p).st.log, "notified", x) # {} ]_vars

\* C4: a Notify call whose replaces_id = X # 0 names no notification and that
\* replies, replies X, leaves _id as it was and has put a new notification
\* with id X and the call's content in the collection.
C4_ReplaceMissingUsesGivenId ==
    \A x \in 1..MaxId : \A p \in Payloads :
        LET r == Notify(State, x, p)
            h == Get(r.st.objs, r.st.notifs, x)
        IN  (Get(objs, _notifications, x) = 0 /\ ~r.st.raised) =>
              /\ r.ret = x
              /\ r.st.id = _id
              /\ h # 0
              /\ h \notin DOMAIN objs
              /\ r.st.objs[h].id = x
              /\ r.st.objs[h].summary = p.summary
              /\ r.st.objs[h].time = clock
              /\ Positions(r.st.log, "notified", x) # {}

C4_Witness ==
    /\ _id = 0
    /\ Get(objs, _notifications, MaxReplacesId) # 0
    /\ clock = 1

\* C5: with max_popups_count left at a value >= 1, the popup dict holds at most
\* max_popups_count entries after every Notify call, in every state reached
\* through Notify, CloseNotification, clear_all, close() and timers.
C5_PopupsBounded ==
    max_popups_count >= 1 =>
        /\ Len(_popups) <= max_popups_count
        /\ \A x \in 0..MaxId : \A p \in Payloads :
             Len(Notify(State, x, p).st.popups) <= max_popups_count

C5_Witness ==
    /\ max_popups_count >= 1
    /\ Len(_popups) = max_popups_count
    /\ Len(_notifications) > max_popups_count
    /\ \E h \in Handles(_notifications) : ~objs[h].popup
    /\ ~dnd

\* C6 (as claimed): with max_popups_count = 0 the popup dict is always empty.
C6_NoPopupsWhenMaxZero == max_popups_count = 0 => _popups = <<>>

\* C7 (as claimed): a Notify call (dnd off, fresh id) that finds the popup dict
\* holding max_popups_count >= 1 entries dismisses the popup inserted first;
\* the other popups stay and the collection loses nothing.
C7_OldestPopupEvicted ==
    [][ \A p \in GoodPayloads :
          (/\ ~dnd
           /\ max_popups_count >= 1
           /\ Len(_popups) = max_popups_count
           /\ AllocId(_id) \notin Keys(objs, _notifications) \cup Keys(objs, _popups)
           /\ DoNotify(0, p)) =>
            /\ _popups[1] \notin Handles(_popups')
            /\ \A i \in 2..Len(_popups) : _popups[i] \in Handles(_popups')
            /\ Handles(_notifications) \subseteq Handles(_notifications') ]_vars

\* C8 (as claimed): the popup dict holds exactly the notifications of the
\* collection whose popup flag is true.
C8_PopupsAreFlaggedNotifications ==
    Handles(_popups) = { h \in Handles(_notifications) : objs[h].popup }

\* C9: no notification whose popup flag is false is in the popup dict.
C9_NoUnflaggedPopup == \A h \in Handles(_popups) : objs[h].popup

C9_Witness ==
    /\ _popups # <<>>
    /\ \E h \in Handles(_notifications) : ~objs[h].popup /\ h \notin Handles(_popups)
    /\ ~dnd

\* C10: CloseNotification(id) for an id in the collection removes that
\* notification from the collection and from the popup dict, clears its popup
\* flag, writes the collection to the file, emits NotificationClosed(id, 2)
\* exactly once and no other NotificationClosed, and leaves every other
\* notification as it was.
C10_CloseRemovesAndSignals ==
    \A id \in 1..MaxId :
        LET h  == Get(objs, _notifications, id)
            s  == CloseNotification(State, id)
            without(d) == SelectSeq(d, LAMBDA g : g # h)
        IN  h # 0 =>
              /\ s.notifs = without(_notifications)
              /\ s.popups = without(_popups)
              /\ Get(s.objs, s.notifs, id) = 0
              /\ ~s.objs[h].popup
              /\ \A g \in DOMAIN objs \ {h} : s.objs[g] = objs[g]
              /\ DOMAIN s.objs = DOMAIN objs
              /\ s.file = Sync(s).file
              /\ s.id = _id
              /\ Cardinality(Positions(s.log, "NotificationClosed", id)) = 1
              /\ \A i \in 1..Len(s.log) :
                   s.log[i].sig = "NotificationClosed" =>
                     (s.log[i].id = id /\ s.log[i].reason = ReasonClosed)

C10_Witness ==
    /\ clock = 2
    /\ _id = 2
    /\ Keys(objs, _notifications) = {2}
    /\ Len(file.doc.notifications) = 1
    /\ _popups = _notifications
    /\ DOMAIN objs = Handles(_notifications)

\* C11: CloseNotification(id) for an id that is not a key of the collection
\* emits nothing and leaves _id, the objects, the collection, the popup dict
\* and the file as they are.
C11_CloseMissingIsNoOp ==
    \A id \in 1..MaxId :
        Get(objs, _notifications, id) = 0 => CloseNotification(State, id) = State

C11_Witness ==
    /\ Get(objs, _notifications, 1) = 0
    /\ Get(objs, _popups, 1) # 0
    /\ _notifications # <<>>

\* the "closed" emissions of object h in a log
ClosedEvents(lg, h) == { i \in 1..Len(lg) : lg[i].sig = "closed" /\ lg[i].obj = h }

\* C12 (as claimed): an object leaves the collection only in a step that
\* emitted its "closed" signal: a timer never takes one out, and a Notify call
\* takes out only objects it closed.
C12_LeavesOnlyByClose ==
    [][ /\ \A h \in DOMAIN objs : TimerFires(h) => _notifications' = _notifications
        /\ \A r \in 0..MaxReplacesId : \A p \in Payloads :
             DoNotify(r, p) =>
               \A h \in Handles(_notifications) \ Handles(_notifications') :
                 ClosedEvents(Notify(State, r, p).st.log, h) # {} ]_vars

\* the "dismissed" emissions of object h in a log
DismissedEvents(lg, h) ==
    { i \in 1..Len(lg) : lg[i].sig = "dismissed" /\ lg[i].obj = h }

\* C13: the first dismiss() of an object emits "dismissed" once if the object
\* was a popup and not at all otherwise; a second dismiss(), and the dismiss
\* inside a later close(), emit nothing more for it, and the second dismiss()
\* changes nothing at all.
C13_DismissIdempotent ==
    \A h \in DOMAIN objs :
        LET s1 == Dismiss(State, h)
            s2 == Dismiss(s1, h)
            s3 == Close(s1, h)
        IN  /\ Cardinality(DismissedEvents(s1.log, h)) = IF objs[h].popup THEN 1 ELSE 0
            /\ s2 = s1
            /\ Cardinality(DismissedEvents(s3.log, h)) =
                 Cardinality(DismissedEvents(s1.log, h))
            /\ ~s3.objs[h].popup

C13_Witness ==
    /\ \E h \in Handles(_popups) : h \in Handles(_notifications) /\ objs[h].popup
    /\ \E h \in Handles(_notifications) : ~objs[h].popup
    /\ \E h \in held : ~objs[h].popup /\ h \notin Handles(_notifications)

\* C14: no step turns the popup flag of an object from false to true (so the
\* flag goes from true to false at most once), and an object is never a popup
\* when it was built under dnd.
C14_PopupFlagOnlyFalls ==
    [][ /\ \A h \in DOMAIN objs \cap DOMAIN objs' : objs'[h].popup => objs[h].popup
        /\ \A h \in DOMAIN objs' \ DOMAIN objs : objs'[h].popup => ~dnd ]_vars

C14_Witness ==
    /\ \E h \in held : ~objs[h].popup /\ h \in Handles(_notifications)
    /\ _popups = <<>>
    /\ ~dnd
    /\ clock = 1

\* C15: the timer of a notification that is in the popup dict and in the
\* collection takes it out of the popup dict, clears its flag and leaves the
\* collection as it is; the timer runs on the resolved timeout (the first
\* Notify with timeout -1 and the default options replies 1, gives popups = {1}
\* and a timeout of 5000, and the timer then leaves popups = {} with id 1 in the
\* collection); and the popup dict is empty again and again, so every popup
\* leaves it in the end.
C15_TimerDismissesPopup ==
    /\ [][ \A h \in DOMAIN objs :
             (h \in Handles(_popups) /\ h \in Handles(_notifications) /\ TimerFires(h)) =>
               /\ h \notin Handles(_popups')
               /\ ~objs'[h].popup
               /\ _notifications' = _notifications ]_vars
    /\ [](\A p \in GoodPayloads :
            (_id = 0 /\ _notifications = <<>> /\ _popups = <<>> /\ ~dnd) =>
              LET r == Notify(State, 0, p)
                  h == Get(r.st.objs, r.st.notifs, 1)
                  t == Dismiss(r.st, h)
              IN  /\ r.ret = 1
                  /\ Keys(r.st.objs, r.st.popups) = {1}
                  /\ r.st.objs[h].timeout =
                       (IF p.timeout = -1 THEN DefaultPopupTimeout ELSE p.timeout)
                  /\ t.popups = <<>>
                  /\ Keys(t.objs, t.notifs) = {1})
    /\ []<>(_popups = <<>>)

C15_Witness ==
    /\ _id = 1
    /\ clock = 1
    /\ Keys(objs, _notifications) = {1}
    /\ _popups = <<>>
    /\ ~dnd
    /\ held = {}
    /\ \A h \in Handles(_notifications) : ~objs[h].popup /\ objs[h].timeout = DefaultPopupTimeout

\* C16 (as claimed): once close() has run on an object (one a widget holds or
\* one of the collection), the object's timer emits nothing and changes
\* nothing, whether it fires at once or after a Notify call has built another
\* notification with the same id.
C16_LateTimerIsNoOp ==
    \A h \in held \cup Handles(_notifications) :
        LET s1 == Close(State, h)
        IN  /\ Dismiss(s1, h) = s1
            /\ \A p \in GoodPayloads :
                 LET s2 == Notify(s1, objs[h].id, p).st
                 IN  Dismiss(s2, h) = s2

\* the emissions of the service signal sig that carry object h
ServiceEvents(lg, sig, h) == { i \in 1..Len(lg) : lg[i].sig = sig /\ lg[i].obj = h }

\* C17: a Notify call that builds a notification (replaces_id 0, or one that
\* names nothing) gives it popup = ~dnd, puts it in the collection and emits
\* "notified" for it once; under dnd it is not put in the popup dict and no
\* "new_popup" is emitted at all; with dnd off it is put in the popup dict and
\* "new_popup" is emitted for it once.
C17_PopupIsNotDnd ==
    \A r \in 0..MaxId : \A p \in GoodPayloads :
        (r = 0 \/ Get(objs, _notifications, r) = 0) =>
          LET c  == Notify(State, r, p)
              st == c.st
              h  == Get(st.objs, st.notifs, c.ret)
          IN  /\ h # 0
              /\ h \notin DOMAIN objs
              /\ st.objs[h].popup = ~dnd
              /\ Cardinality(ServiceEvents(st.log, "notified", h)) = 1
              /\ dnd => /\ h \notin Handles(st.popups)
                        /\ \A i \in 1..Len(st.log) : st.log[i].sig # "new_popup"
              /\ ~dnd => /\ h \in Handles(st.popups)
                         /\ Cardinality(ServiceEvents(st.log, "new_popup", h)) = 1

C17_Witness ==
    /\ dnd
    /\ clock = 2
    /\ Len(_notifications) = 2
    /\ Len(_popups) = 1
    /\ ~objs[_notifications[2]].popup
    /\ objs[_notifications[1]].popup

\* C18 (as claimed): a call whose processing is over (the method returned, or
\* an exception ended it) has been answered, with a reply or an error.
C18_EveryCallAnswered ==
    \A i \in 1..Len(calls) :
        calls[i].stage \in {"returned", "raised"} => calls[i].answered

\* the variables the methods and the timers read and write
registry == <<_id, objs, _notifications, _popups, file>>

\* C19: at most one callback is being executed at any time; the callback of a
\* call is entered only once its unpacking is done (unpacked, then running);
\* and _id, the objects, the two dicts and the file change only in the step in
\* which the one running callback completes, so no two callbacks interleave.
C19_CallbacksSerialized ==
    /\ [](/\ Cardinality(running) <= 1
          /\ \A i \in 1..Len(calls) :
               /\ <<"call", i>> \in running <=> calls[i].stage = "running"
               /\ calls[i].stage = "unpacked" <=> \E k \in 1..Len(ready) : ready[k] = i)
    /\ [][ /\ \A i \in 1..Len(calls) :
                (calls[i].stage # "running" /\ calls'[i].stage = "running") =>
                    (calls[i].stage = "unpacked" /\ running = {})
           /\ registry' # registry =>
                (Cardinality(running) = 1 /\ running' = {}) ]_vars

C19_Witness ==
    /\ \E i, j \in 1..Len(calls) :
         /\ <<"call", i>> \in running
         /\ calls[i].method = "Notify"
         /\ calls[j].stage = "unpacking"
         /\ j < i
    /\ \E h \in Handles(_popups) : objs[h].popup
    /\ _id = 1

\* C20 (as claimed): a start on a file that json.load rejects or that holds a
\* record that is no valid notification (the first one or a later one) does
\* not raise out of __load_notifications and leaves the empty store: no
\* notification in the collection, _id = 0 and the empty document in the file.
C20_CorruptFileLoadsEmpty ==
    [][ (Restart /\ Corrupt(file)) =>
          /\ ~Construct(file, clock).raised
          /\ _notifications' = <<>>
          /\ _id' = 0
          /\ file' = EmptyFile ]_vars

\* the file __sync would write for the state record s
Saved(s) == Sync(s).file

\* C21 (as claimed): after every Notify call that replied, every
\* CloseNotification call and every clear_all call, the file holds _id and the
\* records of the collection, in the collection's order.
C21_FileMirrorsMemory ==
    /\ \A r \in 0..MaxReplacesId : \A p \in Payloads :
         LET c == Notify(State, r, p)
         IN  ~c.st.raised => c.st.file = Saved(c.st)
    /\ \A id \in 1..MaxReplacesId :
         LET s == CloseNotification(State, id) IN s.file = Saved(s)
    /\ LET s == clear_all(State) IN s.file = Saved(s)

\* C22: writing the store and starting on the written file gives back _id and
\* the notifications of the collection in the same order, each with the same
\* id, app_name, icon, summary, body, urgency, timeout, time and actions, and
\* every one of them with popup = false.
C22_SaveLoadRoundTrip ==
    LET s == Construct(Saved(State), clock)
    IN  /\ s.id = _id
        /\ s.file = Saved(State)
        /\ Len(s.notifs) = Len(_notifications)
        /\ \A i \in 1..Len(_notifications) :
             LET a == objs[_notifications[i]]
                 b == s.objs[s.notifs[i]]
             IN  /\ b.id = a.id
                 /\ b.app_name = a.app_name
                 /\ b.icon = a.icon
                 /\ b.summary = a.summary
                 /\ b.body = a.body
                 /\ b.urgency = a.urgency
                 /\ b.timeout = a.timeout
                 /\ b.time = a.time
                 /\ b.actions = a.actions
                 /\ ~b.popup

C22_Witness ==
    /\ Len(_notifications) = 2
    /\ file = Saved(State)
    /\ _popups = <<>>
    /\ \A h \in DOMAIN objs : ~objs[h].popup
    /\ objs[_notifications[1]].actions # <<>>
    /\ objs[_notifications[1]].urgency # DefaultUrgency
    /\ objs[_notifications[2]].actions = <<>>
    /\ _id = 2

\* C23 (as claimed): unless the file was damaged, no step lowers _id: not a
\* Notify, CloseNotification or clear_all call, not a timer, and not the end
\* of the process followed by a start on the file it left.
C23_IdNeverDecreases ==
    [][ ~Corrupt(file) => _id' >= _id ]_vars

\* the ids and reasons of the NotificationClosed signals of a log, in order
ClosedSignals(lg) ==
    LET sel == SelectSeq(lg, LAMBDA e : e.sig = "NotificationClosed")
    IN  [i \in 1..Len(sel) |-> <<sel[i].id, sel[i].reason>>]

\* C24 (as claimed): clear_all leaves the collection and the popup dict empty
\* and emits NotificationClosed(id, 2) exactly once for each notification that
\* was in the collection, in the collection's order, and for nothing else.
C24_ClearAllClosesAllInOrder ==
    LET s == clear_all(State)
    IN  /\ s.notifs = <<>>
        /\ s.popups = <<>>
        /\ ClosedSignals(s.log) =
             [i \in 1..Len(_notifications) |->
                <<objs[_notifications[i]].id, ReasonClosed>>]

\* C25: a Notify call that fails before its notification is built leaves the
\* collection, the popup dict, every object and the records of the file as
\* they were and emits neither "notified" nor "new_popup" (nor anything else).
C25_FailedNotifyLeavesNothing ==
    \A r \in 0..MaxId : \A p \in Payloads :
        LET c == Notify(State, r, p)
        IN  c.st.raised =>
              /\ c.st.notifs = _notifications
              /\ c.st.popups = _popups
              /\ c.st.objs = objs
              /\ c.st.file.doc.notifications = file.doc.notifications
              /\ c.st.log = <<>>
              /\ c.ret = 0

C25_Witness ==
    /\ _id = 2
    /\ clock = 1
    /\ file.doc.id = 1
    /\ Keys(objs, _notifications) = {1}
    /\ _popups = _notifications
    /\ max_popups_count = 1

\* the positions of the file writes in a log
Syncs(lg) == { i \in 1..Len(lg) : lg[i].sig = "sync" }

\* C26 (as claimed): when a Notify call builds a notification, the collection
\* holding it is written to the file before "new_popup" or "notified" is
\* emitted for it, "new_popup" comes before "notified", and "notified" is
\* emitted exactly once.
C26_PersistThenAnnounce ==
    \A r \in 0..MaxId : \A p \in GoodPayloads :
        (r = 0 \/ Get(objs, _notifications, r) = 0) =>
          LET c  == Notify(State, r, p)
              lg == c.st.log
              h  == Get(c.st.objs, c.st.notifs, c.ret)
              announced == ServiceEvents(lg, "new_popup", h) \cup
                           ServiceEvents(lg, "notified", h)
          IN  /\ Cardinality(ServiceEvents(lg, "notified", h)) = 1
              /\ \A i \in ServiceEvents(lg, "new_popup", h) :
                   \A j \in ServiceEvents(lg, "notified", h) : i < j
              /\ \A j \in announced : \E i \in Syncs(lg) : i < j

\* C27 (as claimed): under dnd a Notify call that builds a notification leaves
\* the popup dict as it was, and every popup a popup.
C27_DndLeavesPopupsAlone ==
    \A r \in 0..MaxId : \A p \in GoodPayloads :
        (dnd /\ (r = 0 \/ Get(objs, _notifications, r) = 0)) =>
          LET c == Notify(State, r, p)
          IN  /\ c.st.popups = _popups
              /\ \A h \in DOMAIN objs : c.st.objs[h].popup = objs[h].popup

\* C28 (as claimed): the id a Notify call with replaces_id = 0 allocates is
\* not the id of a notification of the collection or of a popup, and the call
\* removes no entry of the collection.
C28_FreshIdIsUnused ==
    \A p \in GoodPayloads :
        LET c == Notify(State, 0, p)
        IN  /\ \A h \in Handles(_notifications) \cup Handles(_popups) :
                 objs[h].id # c.ret
            /\ Handles(_notifications) \subseteq Handles(c.st.notifs)

\* C29 (as claimed): close() on a notification object that was closed before
\* leaves the collection and the popup dict as they are and emits no
\* NotificationClosed, also when a notification with the same id has been
\* created in between.
C29_ClosedStaysClosed ==
    \A h \in held :
        LET s1 == Close(State, h)
            again == Close(s1, h)
        IN  /\ again.notifs = s1.notifs
            /\ again.popups = s1.popups
            /\ ClosedSignals(again.log) = ClosedSignals(s1.log)
            /\ \A p \in GoodPayloads :
                 LET s2 == Notify(s1, objs[h].id, p).st
                     s3 == Close(s2, h)
                 IN  /\ s3.notifs = s2.notifs
                     /\ s3.popups = s2.popups
                     /\ ClosedSignals(s3.log) = ClosedSignals(s2.log)

\* C30 (as claimed): the method of a call is entered only when the method of
\* every call that arrived before it has been entered.
C30_ArrivalOrder ==
    \A i, j \in 1..Len(calls) :
        (i < j /\ calls[j].stage \in {"running", "returned"}) =>
            calls[i].stage \notin {"unpacking", "unpacked"}

\* C30 (amended): the methods are entered one at a time in the order in which
\* the unpacking of their calls finished: the call whose method is entered is
\* the oldest of the calls whose unpacking has finished and no other callback
\* is running; the reply of a Notify call with replaces_id = 0 that returns is
\* the counter as the call found it plus one.
C30_UnpackOrder ==
    [][ \A i \in 1..Len(calls) :
          /\ (calls[i].stage = "unpacked" /\ calls'[i].stage = "running") =>
                /\ ready # <<>>
                /\ i = Head(ready)
                /\ running = {}
                /\ \A k \in 1..Len(ready') : calls'[ready'[k]].stage = "unpacked"
          /\ (calls[i].stage = "running" /\ calls'[i].stage = "returned"
              /\ calls[i].method = "Notify" /\ calls[i].arg = 0) =>
                /\ calls'[i].ret = AllocId(_id)
                /\ _id' = AllocId(_id) ]_vars

C30_Witness ==
    \E i, j \in 1..Len(calls) :
        /\ i < j
        /\ calls[i].method = "Notify" /\ calls[i].arg = 0
        /\ calls[j].method = "Notify" /\ calls[j].arg = 0
        /\ calls[i].stage = "returned" /\ calls[i].ret = 2
        /\ calls[j].stage = "returned" /\ calls[j].ret = 1

====
